---- MODULE Spec2Model ----
(***************************************************************************)
(* A model of ics.py (glsonline fork): the Event temporal state            *)
(* (ics/event.py), the TodoList interval collection (ics/todolist.py),     *)
(* Todo (ics/todo.py) and Calendar (ics/icalendar.py).                     *)
(*                                                                         *)
(* Instants are integers (a number of seconds), durations are integers     *)
(* (timedelta, which may be negative or zero), and an optional value is a  *)
(* sequence: << >> is Python's None and <<v>> is the value v.              *)
(***************************************************************************)
EXTENDS Integers, Sequences, FiniteSets, TLC

VARIABLES
    event,      \* the Event under test: _begin, _end_time, _duration, _begin_precision
    origin,     \* how the Event came to be: "none" yet, "constructor" or "populate"
    op,         \* the last Event operation called, with its argument
    outcome,    \* how that call ended: "ok" or the error it raised
    heap,       \* the object graph of the clone scenario: reference -> cell
    orig,       \* reference of the object clone() is called on
    cln,        \* reference of its clone, << >> before clone() is called
    cop,        \* the last operation of the clone scenario
    lst,        \* the TodoList under test, a sequence of items
    lop,        \* the last TodoList operation called, with its arguments
    lres,       \* what that call returned
    cal1,       \* the Calendar c1: its event list and its todo list
    cal2,       \* the Calendar c2
    calop,      \* the last Calendar operation called
    calres,     \* what c1 + c2 returned
    store,      \* the Todo objects of the todo scenario: reference -> _due, _percent, uid
    tlist,      \* the TodoList of the todo scenario: the references it holds, in order
    now,        \* the instant arrow.now() returns
    top,        \* the last operation of the todo scenario, with what it returned
    ev1,        \* the Event a of the identity scenario: uid and name, << >> before it is made
    ev2,        \* the Event b of the identity scenario
    idop,       \* the last operation of the identity scenario, with what it returned
    evA,        \* the Event a of the intersection scenario, << >> before it is made
    evB,        \* the Event b of the intersection scenario
    orop        \* the last operation of the intersection scenario, with what it returned

vars == <<store, tlist, now, top, ev1, ev2, idop, evA, evB, orop, event, origin, op, outcome, heap, orig, cln, cop,
          lst, lop, lres, cal1, cal2, calop, calres>>

eventVars == <<event, origin, op, outcome>>
cloneVars == <<heap, orig, cln, cop>>
listVars == <<lst, lop, lres>>
calVars == <<cal1, cal2, calop, calres>>
todoVars == <<store, tlist, now, top>>
identVars == <<ev1, ev2, idop>>
orVars == <<evA, evB, orop>>

(***************************************************************************)
(* Bounds of the model.                                                    *)
(***************************************************************************)
\* Event instants are 0..MaxInstant
MaxInstant == 4
\* durations offered to the Event are MinDuration..MaxDuration
MaxDuration == 2
\* the number of seconds of a day in the model
DayLen == 3

None == << >>
Some(v) == <<v>>
Val(o) == o[1]

Instants == 0..MaxInstant
\* timedelta values: negative, zero-length and positive
Durations == (0 - 1)..MaxDuration
OptInstants == {None} \cup {Some(t) : t \in Instants}
OptDurations == {None} \cup {Some(d) : d \in Durations}
Precisions == {"second", "day"}

\* Python truthiness: an Arrow instant is always true, None is false
TruthyInstant(o) == o # None
\* Python truthiness of a timedelta: None and timedelta(0) are false
TruthyDuration(o) == o # None /\ Val(o) # 0

(***************************************************************************)
(* Event (ics/event.py).                                                   *)
(***************************************************************************)
\* arrow floor('day')
FloorDay(t) == t - (t % DayLen)

\* the unit begin.replace(**{precision + 's': +1}) advances by
PrecisionUnit(p) == IF p = "day" THEN DayLen ELSE 1

\* Event.has_end
has_end(ev) == TruthyInstant(ev.end_time) \/ TruthyDuration(ev.duration)

\* Event.end (getter): the effective end
EventEnd(ev) ==
    IF TruthyDuration(ev.duration)
    THEN IF ev.begin = None THEN None   \* None + timedelta raises; no end is read
         ELSE Some(Val(ev.begin) + Val(ev.duration))
    ELSE IF TruthyInstant(ev.end_time) THEN ev.end_time
    ELSE IF TruthyInstant(ev.begin)
         THEN Some(Val(ev.begin) + PrecisionUnit(ev.begin_precision))
         ELSE None

\* reading Event.end: the getter's value, or the error begin + duration
\* raises when begin is None
ReadEnd(ev) ==
    IF TruthyDuration(ev.duration) /\ ev.begin = None
    THEN [outcome |-> "TypeError", value |-> None]
    ELSE [outcome |-> "ok", value |-> EventEnd(ev)]

\* reading Event.duration: the stored duration when it is true, else
\* end - begin when the effective end is (an Arrow is always true), else None
ReadDuration(ev) ==
    IF TruthyDuration(ev.duration) THEN [outcome |-> "ok", value |-> ev.duration]
    ELSE IF TruthyInstant(EventEnd(ev))
         THEN IF ev.begin = None THEN [outcome |-> "TypeError", value |-> None]
              ELSE [outcome |-> "ok", value |-> Some(Val(EventEnd(ev)) - Val(ev.begin))]
    ELSE [outcome |-> "ok", value |-> None]

\* Event.all_day
all_day(ev) == ev.begin_precision = "day" /\ ~has_end(ev)

\* a begin setter without the ordering check: not what the code does
SetBeginNoCheck(ev, value) ==
    [ev |-> [ev EXCEPT !.begin = value, !.begin_precision = "second"], outcome |-> "ok"]

\* Event.begin (setter)
SetBegin(ev, value) ==
    IF value # None /\ TruthyInstant(ev.end_time) /\ Val(value) > Val(ev.end_time)
    THEN [ev |-> ev, outcome |-> "ValueError"]
    ELSE [ev |-> [ev EXCEPT !.begin = value, !.begin_precision = "second"],
          outcome |-> "ok"]

\* an end setter that keeps the stored duration: not what the code does
SetEndKeepDuration(ev, value, noneCmp) ==
    IF value # None /\ ev.begin = None /\ noneCmp = "TypeError"
    THEN [ev |-> ev, outcome |-> "TypeError"]
    ELSE IF value # None /\ ev.begin # None /\ Val(value) < Val(ev.begin)
    THEN [ev |-> ev, outcome |-> "ValueError"]
    ELSE [ev |-> [ev EXCEPT !.end_time = value], outcome |-> "ok"]

\* Event.end (setter). value < self._begin with _begin None is a comparison
\* of an Arrow with None: it raises TypeError, or (Python 2, an Arrow that
\* answers NotImplemented) is false; noneCmp names which.
SetEnd(ev, value, noneCmp) ==
    IF value # None /\ ev.begin = None /\ noneCmp = "TypeError"
    THEN [ev |-> ev, outcome |-> "TypeError"]
    ELSE IF value # None /\ ev.begin # None /\ Val(value) < Val(ev.begin)
    THEN [ev |-> ev, outcome |-> "ValueError"]
    ELSE [ev |-> [ev EXCEPT !.end_time = value,
                            !.duration = IF value # None THEN None ELSE @],
          outcome |-> "ok"]

\* Event.duration (setter)
SetDuration(ev, value) ==
    [ev |-> [ev EXCEPT !.end_time = IF TruthyDuration(value) THEN None ELSE @,
                       !.duration = value],
     outcome |-> "ok"]

\* a make_all_day that keeps the stored end: not what the code does
MakeAllDayKeepEnd(ev) ==
    IF ev.begin = None
    THEN [ev |-> [ev EXCEPT !.begin_precision = "day"], outcome |-> "AttributeError"]
    ELSE [ev |-> [ev EXCEPT !.begin = Some(FloorDay(Val(ev.begin))),
                            !.duration = None, !.begin_precision = "day"],
          outcome |-> "ok"]

\* Event.make_all_day: the precision is assigned before _begin.floor('day'),
\* which raises AttributeError when _begin is None
MakeAllDay(ev) ==
    IF ev.begin = None
    THEN [ev |-> [ev EXCEPT !.begin_precision = "day"], outcome |-> "AttributeError"]
    ELSE [ev |-> [begin |-> Some(FloorDay(Val(ev.begin))), end_time |-> None,
                  duration |-> None, begin_precision |-> "day"],
          outcome |-> "ok"]

\* the fields as Event.__init__ has them before it assigns begin
BlankEvent ==
    [begin |-> None, end_time |-> None, duration |-> None, begin_precision |-> "second"]

\* Event.__init__(begin, end, duration)
EventInit(begin, end, duration, noneCmp) ==
    LET r1 == SetBegin(BlankEvent, begin) IN
    IF TruthyDuration(duration) /\ TruthyInstant(end)
    THEN [ev |-> r1.ev, outcome |-> "ValueError"]
    ELSE IF TruthyInstant(end) THEN SetEnd(r1.ev, end, noneCmp)
    ELSE IF TruthyDuration(duration) THEN SetDuration(r1.ev, duration)
    ELSE r1

(***************************************************************************)
(* Populating an Event from a container (Event._from_container): a fresh   *)
(* Event() runs the extractors in the order event.py declares them.  A     *)
(* line is None (absent), Some(v), or Malformed (text that is no instant). *)
(***************************************************************************)
\* (three fields, so that it is no <<v>> and no <<instant, precision>>)
Malformed == <<"text", "that is", "no date-time">>
DtStartLines == {None, Malformed} \cup {<<t, p>> : t \in Instants, p \in Precisions}
DtEndLines == OptInstants \cup {Malformed}

\* iso_to_arrow(line): the instant, or ParserError on text that is no date-time
IsoToArrow(line) ==
    IF line = Malformed THEN [value |-> None, outcome |-> "ParserError"]
    ELSE [value |-> Some(line[1]), outcome |-> "ok"]

\* start (DTSTART extractor): a ParserError is caught and sys.exit(0) is called
ExtractStart(ev, line) ==
    IF line = None THEN [ev |-> ev, outcome |-> "ok"]
    ELSE LET parsed == IsoToArrow(line) IN
         IF parsed.outcome = "ParserError"
         THEN [ev |-> ev, outcome |-> "SystemExit"]
         ELSE LET r == SetBegin(ev, parsed.value) IN
              IF r.outcome # "ok" THEN r
              ELSE [ev |-> [r.ev EXCEPT !.begin_precision = line[2]], outcome |-> "ok"]

\* duration (DURATION extractor)
ExtractDuration(ev, line) ==
    IF line = None THEN [ev |-> ev, outcome |-> "ok"]
    ELSE IF TruthyInstant(ev.end_time) THEN [ev |-> ev, outcome |-> "ValueError"]
    ELSE [ev |-> [ev EXCEPT !.duration = line], outcome |-> "ok"]

\* end (DTEND extractor)
ExtractEnd(ev, line) ==
    IF line = None THEN [ev |-> ev, outcome |-> "ok"]
    ELSE IF TruthyDuration(ev.duration) THEN [ev |-> ev, outcome |-> "ValueError"]
    ELSE LET parsed == IsoToArrow(line) IN
         IF parsed.outcome # "ok" THEN [ev |-> ev, outcome |-> parsed.outcome]
         ELSE [ev |-> [ev EXCEPT !.end_time = parsed.value], outcome |-> "ok"]

\* Event._from_container: Event() then DTSTART, DURATION, DTEND in declared order
EventPopulate(dtstart, dur, dtend) ==
    LET r1 == ExtractStart(BlankEvent, dtstart) IN
    IF r1.outcome # "ok" THEN r1
    ELSE LET r2 == ExtractDuration(r1.ev, dur) IN
         IF r2.outcome # "ok" THEN r2
         ELSE ExtractEnd(r2.ev, dtend)

\* no Event exists yet: the constructor or _from_container is about to be called
Unborn == origin = "none" /\ op.name = "none"

\* an Event exists (a call that raises produces none, and sys.exit ends the process)
Live == origin # "none"

\* Event(begin, end, duration): an Event, or the error raised and no Event
Construct ==
    /\ Unborn
    /\ \E b \in OptInstants, e \in OptInstants, d \in OptDurations,
          noneCmp \in {"TypeError", "False"} :
          LET r == EventInit(b, e, d, noneCmp) IN
          /\ op' = [name |-> "Event", begin |-> b, end |-> e, duration |-> d]
          /\ outcome' = r.outcome
          /\ event' = IF r.outcome = "ok" THEN r.ev ELSE event
          /\ origin' = IF r.outcome = "ok" THEN "constructor" ELSE origin
    /\ UNCHANGED <<cloneVars, listVars, calVars, todoVars, identVars, orVars>>

\* Event._from_container(container)
Populate ==
    /\ Unborn
    /\ \E s \in DtStartLines, d \in OptDurations, e \in DtEndLines :
          LET r == EventPopulate(s, d, e) IN
          /\ op' = [name |-> "populate", dtstart |-> s, duration |-> d, dtend |-> e]
          /\ outcome' = r.outcome
          /\ event' = IF r.outcome = "ok" THEN r.ev ELSE event
          /\ origin' = IF r.outcome = "ok" THEN "populate" ELSE origin
    /\ UNCHANGED <<cloneVars, listVars, calVars, todoVars, identVars, orVars>>

set_begin ==
    /\ Live
    /\ \E v \in OptInstants :
          LET r == SetBegin(event, v) IN
          /\ op' = [name |-> "set_begin", value |-> v]
          /\ outcome' = r.outcome
          /\ event' = r.ev
    /\ UNCHANGED <<origin, cloneVars, listVars, calVars, todoVars, identVars, orVars>>

set_end ==
    /\ Live
    /\ \E v \in OptInstants, noneCmp \in {"TypeError", "False"} :
          LET r == SetEnd(event, v, noneCmp) IN
          /\ op' = [name |-> "set_end", value |-> v]
          /\ outcome' = r.outcome
          /\ event' = r.ev
    /\ UNCHANGED <<origin, cloneVars, listVars, calVars, todoVars, identVars, orVars>>

set_duration ==
    /\ Live
    /\ \E v \in OptDurations :
          LET r == SetDuration(event, v) IN
          /\ op' = [name |-> "set_duration", value |-> v]
          /\ outcome' = r.outcome
          /\ event' = r.ev
    /\ UNCHANGED <<origin, cloneVars, listVars, calVars, todoVars, identVars, orVars>>

make_all_day ==
    /\ Live
    /\ LET r == MakeAllDay(event) IN
          /\ op' = [name |-> "make_all_day", value |-> None]
          /\ outcome' = r.outcome
          /\ event' = r.ev
    /\ UNCHANGED <<origin, cloneVars, listVars, calVars, todoVars, identVars, orVars>>

\* the variables of the other scenarios, at rest
IdleEvent ==
    /\ event = BlankEvent
    /\ origin = "none"
    /\ op = [name |-> "none"]
    /\ outcome = "ok"

IdleClone ==
    /\ heap = << >>
    /\ orig = None
    /\ cln = None
    /\ cop = [name |-> "none", on |-> "orig", n |-> 0]

IdleList ==
    /\ lst = << >>
    /\ lop = [name |-> "none"]
    /\ lres = None

IdleCal ==
    /\ cal1 = [events |-> << >>, todos |-> << >>]
    /\ cal2 = [events |-> << >>, todos |-> << >>]
    /\ calop = [name |-> "none"]
    /\ calres = None

IdleTodo ==
    /\ store = << >>
    /\ tlist = << >>
    /\ now = 0
    /\ top = [name |-> "none", ref |-> 0, value |-> None, result |-> "ok"]

IdleIdent ==
    /\ ev1 = None
    /\ ev2 = None
    /\ idop = [name |-> "none", gen |-> 0]

IdleOr ==
    /\ evA = None
    /\ evB = None
    /\ orop = [name |-> "none"]

\* the Event scenario: one Event, from the call that creates it onwards
InitEvent == IdleEvent /\ IdleClone /\ IdleList /\ IdleCal /\ IdleTodo /\ IdleIdent /\ IdleOr

NextEvent ==
    \/ Construct
    \/ Populate
    \/ set_begin
    \/ set_end
    \/ set_duration
    \/ make_all_day

SpecEvent == InitEvent /\ [][NextEvent]_vars

(***************************************************************************)
(* Claims about the Event.                                                 *)
(***************************************************************************)
\* C1: an Event reached through the constructor, the setters, make_all_day
\* and the DTEND/DURATION extractors never holds both a stored end and a
\* stored duration, whatever the duration's value (a zero-length one too).
C1_NeverEndAndDuration ==
    Live => ~(event.end_time # None /\ event.duration # None)

\* C2: on an Event made by the constructor and changed by set_begin, set_end,
\* set_duration and make_all_day, begin <= effective end whenever begin is set.
C2_BeginNotAfterEnd ==
    (origin = "constructor" /\ event.begin # None)
        => (EventEnd(event) # None /\ Val(event.begin) <= Val(EventEnd(event)))

\* what the Event would hold had the setter stored its value as the
\* specification describes it (set_end clears the duration, set_duration the end)
Stored(ev, name, value) ==
    IF name = "set_begin" THEN [ev EXCEPT !.begin = value, !.begin_precision = "second"]
    ELSE IF name = "set_end"
         THEN [ev EXCEPT !.end_time = value,
                         !.duration = IF value # None THEN None ELSE @]
    ELSE [ev EXCEPT !.duration = value,
                    !.end_time = IF value # None THEN None ELSE @]

\* the setter call would make begin exceed the end
WouldExceed(ev, name, value) ==
    LET after == Stored(ev, name, value) IN
    /\ value # None
    /\ after.begin # None
    /\ EventEnd(after) # None
    /\ Val(after.begin) > Val(EventEnd(after))

Setters == {"set_begin", "set_end", "set_duration"}

\* C3: a set_begin, set_end or set_duration call that would make begin exceed
\* the end fails, and leaves begin, its precision, the stored end and the
\* stored duration as they were.
C3_RejectedSetterKeepsState ==
    [][(/\ Live
        /\ op'.name \in Setters
        /\ WouldExceed(event, op'.name, op'.value))
          => (outcome' # "ok" /\ event' = event)]_vars

\* C10: a DTSTART value that is no date-time, met while populating an Event, is
\* reported to the caller as a parse error; the process is not terminated.
C10_ParseErrorReported ==
    (op.name = "populate" /\ op.dtstart = Malformed) => outcome = "ParserError"

C12_EndAndDurationRejected ==
    (/\ op.name = "Event" /\ op.end # None /\ op.duration # None
     /\ op.begin # None /\ Val(op.begin) <= Val(op.end))
        => (outcome = "ValueError" /\ ~Live)

\* C13: on an Event with begin set, stored end, stored duration or neither,
\* make_all_day() leaves begin at the start of its day, no stored end and no
\* stored duration: all_day is true, has_end() false, and the effective end
\* is begin + 1 day.
C13_MakeAllDay ==
    [][(Live /\ event.begin # None /\ op'.name = "make_all_day")
          => /\ outcome' = "ok"
             /\ event'.begin = Some(FloorDay(Val(event.begin)))
             /\ event'.end_time = None
             /\ event'.duration = None
             /\ all_day(event')
             /\ ~has_end(event')
             /\ ReadEnd(event')
                  = [outcome |-> "ok", value |-> Some(Val(event'.begin) + DayLen)]]_vars

\* C13 witness: make_all_day() has moved a begin inside the second day to
\* that day's start
C13_Witness ==
    /\ op.name = "make_all_day" /\ outcome = "ok"
    /\ event.begin = Some(DayLen)
    /\ all_day(event)
    /\ EventEnd(event) = Some(2 * DayLen)

\* C14: the effective end is the stored end when an end is stored, begin +
\* duration when a duration is stored, begin advanced by one unit of the begin
\* precision when neither is stored and begin is set, and absent when nothing
\* is stored; an Event constructed with only a begin has effective end begin
\* + 1 second and is not all-day.
C14_EffectiveEnd ==
    Live =>
      /\ (event.end_time # None /\ event.duration = None)
            => ReadEnd(event) = [outcome |-> "ok", value |-> event.end_time]
      /\ (event.duration # None /\ event.end_time = None /\ event.begin # None)
            => ReadEnd(event)
                 = [outcome |-> "ok",
                    value |-> Some(Val(event.begin) + Val(event.duration))]
      /\ (event.duration = None /\ event.end_time = None /\ event.begin # None)
            => ReadEnd(event)
                 = [outcome |-> "ok",
                    value |-> Some(Val(event.begin) + PrecisionUnit(event.begin_precision))]
      /\ (event.duration = None /\ event.end_time = None /\ event.begin = None)
            => ReadEnd(event) = [outcome |-> "ok", value |-> None]
      /\ (op.name = "Event" /\ op.begin # None /\ op.end = None /\ op.duration = None)
            => /\ ReadEnd(event) = [outcome |-> "ok", value |-> Some(Val(op.begin) + 1)]
               /\ ~all_day(event)

\* C20: set_begin(v) fails with an ordering error exactly when an end is
\* stored and v exceeds it; otherwise it stores v as begin with precision
\* "second", so that all_day is false afterwards, and leaves the stored end
\* and the stored duration as they were.
C20_SetBegin ==
    [][(Live /\ op'.name = "set_begin")
          => IF op'.value # None /\ event.end_time # None
                /\ Val(op'.value) > Val(event.end_time)
             THEN outcome' = "ValueError" /\ event' = event
             ELSE /\ outcome' = "ok"
                  /\ event'.begin = op'.value
                  /\ event'.begin_precision = "second"
                  /\ ~all_day(event')
                  /\ event'.end_time = event.end_time
                  /\ event'.duration = event.duration]_vars

\* C20 witness: set_begin(v) was refused, v exceeding the stored end
C20_Witness ==
    /\ op.name = "set_begin" /\ outcome = "ValueError"
    /\ event.end_time # None
    /\ Val(op.value) > Val(event.end_time)

\* C21: has_end() is true exactly when an end or a duration is stored,
\* whatever the stored value (a zero-length duration too), and so false when
\* only begin is set.
C21_HasEndIffStored ==
    Live => (has_end(event) <=> (event.end_time # None \/ event.duration # None))

\* o_start, o_duration and o_end: the names of the temporal lines the
\* serialized Event carries
OutputLines(ev) ==
    (IF TruthyInstant(ev.begin) THEN {"DTSTART"} ELSE {})
        \cup (IF TruthyDuration(ev.duration) /\ TruthyInstant(ev.begin)
              THEN {"DURATION"} ELSE {})
        \cup (IF TruthyInstant(ev.begin) /\ TruthyInstant(ev.end_time)
              THEN {"DTEND"} ELSE {})

\* C27: the serialized Event carries at most one of the DTEND and DURATION
\* lines, and populating from a container that carries both a DTEND and a
\* DURATION line fails and produces no Event.
C27_EndXorDurationLine ==
    /\ Live => ~({"DTEND", "DURATION"} \subseteq OutputLines(event))
    /\ (op.name = "populate" /\ op.dtstart # Malformed
                             /\ op.dtend # None /\ op.duration # None)
          => (outcome # "ok" /\ ~Live)

(***************************************************************************)
(* TodoList (ics/todolist.py).  An item is what the list reads of a timed  *)
(* item: its uid (equality and hash are the uid's) and the begin and end   *)
(* its range access compares.  A list is a sequence of items; nothing      *)
(* keeps two items of one list from having the same uid.                   *)
(***************************************************************************)
\* list instants are 0..MaxT
MaxT == 8
\* a list holds at most MaxLen items
MaxLen == 3
\* the right operand of + holds at most MaxOther items
MaxOther == 2
\* a slice assignment offers at most MaxVal values
MaxVal == 1

ItemA == [uid |-> "a", begin |-> 1, end |-> 3]
ItemB == [uid |-> "b", begin |-> 2, end |-> 5]
ItemC == [uid |-> "c", begin |-> 6, end |-> 8]
\* another item with the uid of ItemA (a changed copy of it)
ItemA2 == [uid |-> "a", begin |-> 6, end |-> 8]
Pool == {ItemA, ItemB, ItemC, ItemA2}

ListInstants == 0..MaxT
OptListInstants == {None} \cup {Some(t) : t \in ListInstants}
\* the step of a slice: absent, one of the five modificators, or another token
Steps == {None} \cup {Some(m) : m \in {"begin", "end", "both", "any", "inc", "bogus"}}
\* the items concurrent(todo) is asked about
Probes == {[uid |-> "t", begin |-> b, end |-> e] : b \in ListInstants, e \in ListInstants}

SeqsUpTo(S, n) == UNION {[1..k -> S] : k \in 0..n}

Uids(s) == {s[i].uid : i \in 1..Len(s)}

\* list(filter(cond, self)) for cond a set of accepted positions
RECURSIVE FilterSeq(_, _, _)
FilterSeq(s, keep, i) ==
    IF i > Len(s) THEN << >>
    ELSE (IF i \in keep THEN <<s[i]>> ELSE << >>) \o FilterSeq(s, keep, i + 1)

\* condition1 of TodoList.__getitem__ (the lower bound)
Condition1(x, begin, step) ==
    IF begin # None
    THEN CASE step = "begin" -> x.begin > Val(begin)
           [] step = "end" -> x.end > Val(begin)
           [] step = "any" -> x.begin > Val(begin) \/ x.end > Val(begin)
           [] step = "both" -> x.begin > Val(begin) /\ x.end > Val(begin)
    ELSE TRUE

\* condition2 of TodoList.__getitem__ (the lower and the upper bound)
Condition2(x, begin, end, step) ==
    IF end # None
    THEN CASE step = "begin" -> Condition1(x, begin, step) /\ x.begin < Val(end)
           [] step = "end" -> Condition1(x, begin, step) /\ x.end < Val(end)
           [] step = "any" -> \/ Condition1(x, begin, step) /\ x.begin < Val(end)
                              \/ Condition1(x, begin, step) /\ x.end < Val(end)
           [] step = "both" -> /\ Condition1(x, begin, step) /\ x.begin < Val(end)
                               /\ Condition1(x, begin, step) /\ x.end < Val(end)
    ELSE Condition1(x, begin, step)

\* mode inc with the bounds included: not what the code computes
ConditionIncLoose(x, begin, end) == x.begin <= Val(begin) /\ Val(end) <= x.end

\* the condition of mode inc
ConditionInc(x, begin, end) == x.begin < Val(begin) /\ Val(end) < x.end

ValidSteps == {"begin", "end", "both", "any", "inc"}

\* a range access that takes any token for a mode and, on one it does not
\* know, returns the whole list: not what the code does
GetItemAnyToken(self, start, stop, slstep) ==
    IF slstep # None /\ Val(slstep) \notin ValidSteps
    THEN [outcome |-> "ok", items |-> self]
    ELSE [outcome |-> "ok",
          items |-> FilterSeq(self, {i \in 1..Len(self) :
                        Condition2(self[i], start, stop,
                                   IF slstep = None THEN "both" ELSE Val(slstep))}, 1)]

\* TodoList.__getitem__ on a slice that is no integer slice
GetItem(self, start, stop, slstep) ==
    IF slstep # None /\ Val(slstep) \notin ValidSteps
    THEN [outcome |-> "ValueError", items |-> << >>]
    ELSE LET step == IF slstep = None THEN "both" ELSE Val(slstep) IN
         IF step = "inc"
         THEN IF start # None /\ stop = None
              \* condition2 = condition1 reads a condition1 no branch assigned
              THEN [outcome |-> "UnboundLocalError", items |-> << >>]
              ELSE IF start = None \/ stop = None
              THEN [outcome |-> "ok", items |-> << >>]
              ELSE [outcome |-> "ok",
                    items |-> FilterSeq(self,
                        {i \in 1..Len(self) : ConditionInc(self[i], start, stop)}, 1)]
         ELSE [outcome |-> "ok",
               items |-> FilterSeq(self,
                   {i \in 1..Len(self) : Condition2(self[i], start, stop, step)}, 1)]

\* set(list): of the items of one uid the set keeps the first added
PySet(s) == {s[i] : i \in {k \in 1..Len(s) : \A j \in 1..(k - 1) : s[j].uid # s[k].uid}}

\* a | b: a's items, and those of b that equal none of them
PyOr(a, b) == a \cup {y \in b : \A x \in a : x.uid # y.uid}

\* a & b (CPython): the items of the smaller set (of b when they are as large)
\* that equal an item of the other
PyAnd(a, b) ==
    IF Cardinality(b) > Cardinality(a)
    THEN {x \in a : \E y \in b : y.uid = x.uid}
    ELSE {y \in b : \E x \in a : x.uid = y.uid}

\* list(set): the set's items, which Python lists in no stated order and the
\* model lists in the order of their first place in self
PyList(set, self) ==
    FilterSeq(self, {k \in 1..Len(self) :
                        self[k] \in set /\ \A j \in 1..(k - 1) : self[j] # self[k]}, 1)

\* TodoList.concurrent: list(set(a) | (set(b) & set(c)))
Concurrent(self, todo) ==
    LET a == GetItem(self, Some(todo.begin), Some(todo.end), Some("any")).items
        b == GetItem(self, None, Some(todo.begin), Some("begin")).items
        c == GetItem(self, Some(todo.end), None, Some("end")).items
    IN PyList(PyOr(PySet(a), PyAnd(PySet(b), PySet(c))), self)

\* s without its i-th item (del self[i])
DelItem(s, i) == SubSeq(s, 1, i - 1) \o SubSeq(s, i + 1, Len(s))

\* the loop of TodoList._remove_duplicates, from index i down
RECURSIVE RemoveLoop(_, _, _)
RemoveLoop(s, i, seen) ==
    IF i = 0 THEN s
    ELSE IF s[i].uid \in seen
         THEN RemoveLoop(DelItem(s, i), i - 1, seen)
         ELSE RemoveLoop(s, i - 1, seen \cup {s[i].uid})

\* TodoList._remove_duplicates
RemoveDuplicates(s) == RemoveLoop(s, Len(s), {})

\* list + list without _remove_duplicates: not what the code computes
ListAddNoDedup(self, other) == self \o other

\* TodoList.__add__: list + list, TodoList(ret), ret._remove_duplicates()
ListAdd(self, other) == RemoveDuplicates(self \o other)

\* the values offered to a TodoList that are no Todo (isinstance(elem, Todo)
\* is false); the interval fields stand for nothing
NonTodos == {[uid |-> "n", begin |-> 0, end |-> 0, type |-> "str"]}
Offers == Pool \cup NonTodos
IsTodo(x) == x \notin NonTodos
AllTodos(s) == \A i \in 1..Len(s) : IsTodo(s[i])
Rejected == [outcome |-> "ValueError", items |-> << >>]

\* TodoList.__init__(arg): the list built, or the error raised at the first
\* element that is no Todo
TodoListInit(arg) ==
    IF AllTodos(arg) THEN [outcome |-> "ok", list |-> arg]
    ELSE [outcome |-> "ValueError", list |-> << >>]

\* an append that takes any value: not what the code does
AppendAnything(self, elem) == [outcome |-> "ok", list |-> Append(self, elem)]

\* TodoList.append(elem)
TodoListAppend(self, elem) ==
    IF IsTodo(elem) THEN [outcome |-> "ok", list |-> Append(self, elem)]
    ELSE [outcome |-> "ValueError", list |-> self]

\* TodoList.__setitem__(key, val), key an integer within the list
SetItem(self, key, val) ==
    IF IsTodo(val) THEN [outcome |-> "ok", list |-> [self EXCEPT ![key] = val]]
    ELSE [outcome |-> "ValueError", list |-> self]

\* TodoList.__setitem__(slice(i, j), val) with 0 <= i <= j <= len(self): all
\* of val is examined before list.__setitem__ replaces self[i:j] by it
SetSlice(self, i, j, val) ==
    IF AllTodos(val)
    THEN [outcome |-> "ok",
          list |-> SubSeq(self, 1, i) \o val \o SubSeq(self, j + 1, Len(self))]
    ELSE [outcome |-> "ValueError", list |-> self]

\* "Todo" when every value offered is a Todo, "other" when one is not
Offered(s) == IF AllTodos(s) THEN "Todo" ELSE "other"

\* a query can be made: the list exists and its last call returned nothing
NoResult == lop.name # "none" /\ lres = None

\* the list exists (TodoList(arg) was called and did not raise) and no query
\* was made yet: the scenario is the construction, then the calls that change
\* the list, then one query, which changes nothing
ListLive ==
    /\ lop.name \in {"TodoList", "append", "setitem", "setslice"}
    /\ ~(lop.name = "TodoList" /\ lres # None)

\* TodoList(arg), the call the list's life starts with
NewList ==
    /\ lop.name = "none"
    /\ \E arg \in SeqsUpTo(Offers, MaxLen) :
          LET r == TodoListInit(arg) IN
          /\ lst' = r.list
          /\ lop' = [name |-> "TodoList", offered |-> Offered(arg)]
          /\ lres' = IF r.outcome = "ok" THEN None ELSE Rejected
    /\ UNCHANGED <<eventVars, cloneVars, calVars, todoVars, identVars, orVars>>

\* TodoList.append(elem)
ListAppend ==
    /\ ListLive
    /\ Len(lst) < MaxLen
    /\ \E elem \in Offers :
          LET r == TodoListAppend(lst, elem) IN
          /\ lst' = r.list
          /\ lop' = [name |-> "append", offered |-> Offered(<<elem>>)]
          /\ lres' = IF r.outcome = "ok" THEN None ELSE Rejected
    /\ UNCHANGED <<eventVars, cloneVars, calVars, todoVars, identVars, orVars>>

\* TodoList.__setitem__(key, val) with an integer key
ListSetItem ==
    /\ ListLive
    /\ \E key \in 1..Len(lst), val \in Offers :
          LET r == SetItem(lst, key, val) IN
          /\ lst' = r.list
          /\ lop' = [name |-> "setitem", offered |-> Offered(<<val>>), key |-> key]
          /\ lres' = IF r.outcome = "ok" THEN None ELSE Rejected
    /\ UNCHANGED <<eventVars, cloneVars, calVars, todoVars, identVars, orVars>>

\* self[i:j] = val
ListSetSlice ==
    /\ ListLive
    /\ \E i \in 0..Len(lst), val \in SeqsUpTo(Offers, MaxVal) :
          \E j \in i..Len(lst) :
              LET r == SetSlice(lst, i, j, val) IN
              /\ Len(r.list) <= MaxLen
              /\ lst' = r.list
              /\ lop' = [name |-> "setslice", offered |-> Offered(val)]
              /\ lres' = IF r.outcome = "ok" THEN None ELSE Rejected
    /\ UNCHANGED <<eventVars, cloneVars, calVars, todoVars, identVars, orVars>>

\* self + other
ListPlus ==
    /\ NoResult
    /\ \E other \in SeqsUpTo(Pool, MaxOther) \cup {lst} :
          /\ lop' = [name |-> "add", other |-> other]
          /\ lres' = [outcome |-> "ok", items |-> ListAdd(lst, other)]
    /\ UNCHANGED <<lst, eventVars, cloneVars, calVars, todoVars, identVars, orVars>>

\* self[start:stop:step]
ListGetItem ==
    /\ NoResult
    /\ \E start \in OptListInstants, stop \in OptListInstants, step \in Steps :
          /\ start # None \/ stop # None \/ step # None  \* else an integer slice
          /\ lop' = [name |-> "getitem", start |-> start, stop |-> stop, step |-> step]
          /\ lres' = GetItem(lst, start, stop, step)
    /\ UNCHANGED <<lst, eventVars, cloneVars, calVars, todoVars, identVars, orVars>>

\* self.concurrent(todo)
ListConcurrent ==
    /\ NoResult
    /\ \E todo \in Probes :
          /\ lop' = [name |-> "concurrent", todo |-> todo]
          /\ lres' = [outcome |-> "ok", items |-> Concurrent(lst, todo)]
    /\ UNCHANGED <<lst, eventVars, cloneVars, calVars, todoVars, identVars, orVars>>

\* the list scenario: TodoList(arg), then calls on the list
InitList == IdleEvent /\ IdleClone /\ IdleList /\ IdleCal /\ IdleTodo /\ IdleIdent /\ IdleOr

NextList ==
    \/ NewList
    \/ ListAppend
    \/ ListSetItem
    \/ ListSetSlice
    \/ ListPlus
    \/ ListGetItem
    \/ ListConcurrent

SpecList == InitList /\ [][NextList]_vars

(***************************************************************************)
(* Claims about the TodoList.                                              *)
(***************************************************************************)
\* the items of s that are the first of their uid, in the order of s
FirstOccurrences(s) ==
    FilterSeq(s, {k \in 1..Len(s) : \A j \in 1..(k - 1) : s[j].uid # s[k].uid}, 1)

\* C5: A + B holds each distinct uid of A and B once, in the order of first
\* occurrence across A followed by B, and the item retained for a uid is its
\* first occurrence; A is left as it was.
C5_AddKeepsFirstOccurrence ==
    lop.name = "add" => lres.items = FirstOccurrences(lst \o lop.other)

\* C6 (as claimed): for every list A built by the constructor, append and item
\* assignment, A + A has the same length as A.
C6_AddSelfSameLength ==
    (lop.name = "add" /\ lop.other = lst) => Len(lres.items) = Len(lst)

\* C6 (amended): A + A has as many items as A has distinct uids, which is the
\* length of A exactly when no two items of A have the same uid.
C6_AddSelfCountsUids ==
    (lop.name = "add" /\ lop.other = lst)
        => /\ Len(lres.items) = Cardinality(Uids(lst))
           /\ (Len(lres.items) = Len(lst)
                 <=> \A i, j \in 1..Len(lst) : lst[i].uid = lst[j].uid => i = j)

\* C6 witness: A + A was computed for a list A holding the same uid twice
C6_Witness ==
    /\ lop.name = "add"
    /\ lop.other = lst
    /\ Len(lst) = 3
    /\ Cardinality(Uids(lst)) = 2
    /\ Len(lres.items) = 2

\* the list and the three range accesses of the range scenario
RangeList == <<ItemA, ItemB, ItemC>>
AnyQuery == [name |-> "getitem", start |-> Some(0), stop |-> Some(4), step |-> Some("any")]
BothQuery == [name |-> "getitem", start |-> Some(0), stop |-> Some(4), step |-> Some("both")]
IncQuery == [name |-> "getitem", start |-> Some(2), stop |-> Some(3), step |-> Some("inc")]

\* C7 (as claimed): on the items [1,3), [2,5), [6,8), mode any over [0,4)
\* returns the first two items, mode both over [0,4) the first item, and mode
\* inc over [2,3) the second item.
C7_RangeScenario ==
    lst = RangeList
        => /\ lop = AnyQuery => lres = [outcome |-> "ok", items |-> <<ItemA, ItemB>>]
           /\ lop = BothQuery => lres = [outcome |-> "ok", items |-> <<ItemA>>]
           /\ lop = IncQuery => lres = [outcome |-> "ok", items |-> <<ItemB>>]

\* C7 (amended): mode any over [0,4) returns the first two items and mode both
\* over [0,4) the first item; mode inc over [2,3) returns no item, the second
\* item's begin being equal to the window's start and not before it.
C7_RangeScenarioStrictInc ==
    lst = RangeList
        => /\ lop = AnyQuery => lres = [outcome |-> "ok", items |-> <<ItemA, ItemB>>]
           /\ lop = BothQuery => lres = [outcome |-> "ok", items |-> <<ItemA>>]
           /\ lop = IncQuery => lres = [outcome |-> "ok", items |-> << >>]

\* C7 witness: the inc access over [2,3) was made on the three items
C7_Witness ==
    lst = RangeList /\ lop = IncQuery /\ lres.items = << >>

\* t lies in the range from start to stop: start included, stop excluded, an
\* absent bound imposing nothing
Within(t, start, stop) ==
    /\ start # None => Val(start) <= t
    /\ stop # None => t < Val(stop)

\* C23: mode begin returns exactly the items with start <= item.begin < stop
\* and mode end those with start <= item.end < stop, in list order: the lower
\* bound is included, the upper excluded, an absent bound imposes nothing.
C23_BeginEndHalfOpen ==
    /\ (lop.name = "getitem" /\ lop.step = Some("begin"))
          => lres = [outcome |-> "ok",
                     items |-> FilterSeq(lst, {i \in 1..Len(lst) :
                                   Within(lst[i].begin, lop.start, lop.stop)}, 1)]
    /\ (lop.name = "getitem" /\ lop.step = Some("end"))
          => lres = [outcome |-> "ok",
                     items |-> FilterSeq(lst, {i \in 1..Len(lst) :
                                   Within(lst[i].end, lop.start, lop.stop)}, 1)]

\* x has no endpoint on the lower bound (so that an included and an excluded
\* lower bound accept the same endpoints of x)
OffStart(x, start) == start # None => (x.begin # Val(start) /\ x.end # Val(start))

\* C24: mode any returns an item exactly when its begin is within the range
\* or its end is within the range; an item that spans the range, neither
\* endpoint inside, is not returned.  (Stated for the items with no endpoint
\* on the lower bound.)
C24_AnyIsEitherEndpointInside ==
    (lop.name = "getitem" /\ lop.step = Some("any"))
        => /\ lres.outcome = "ok"
           /\ \A i \in 1..Len(lst) :
                 OffStart(lst[i], lop.start)
                     => ((\E j \in 1..Len(lres.items) : lres.items[j] = lst[i])
                           <=> \/ Within(lst[i].begin, lop.start, lop.stop)
                               \/ Within(lst[i].end, lop.start, lop.stop))

\* C25: mode inc returns exactly the items with item.begin < start and
\* stop < item.end, and no item when start or stop is absent.
C25_IncStrictlyContains ==
    (lop.name = "getitem" /\ lop.step = Some("inc"))
        => lres = [outcome |-> "ok",
                   items |-> IF lop.start = None \/ lop.stop = None THEN << >>
                             ELSE FilterSeq(lst, {i \in 1..Len(lst) :
                                      /\ lst[i].begin < Val(lop.start)
                                      /\ Val(lop.stop) < lst[i].end}, 1)]

\* C26: a range access with no mode gives the result of the same access with
\* mode both; a range access with a mode token other than begin, end, both,
\* any and inc fails with ValueError, returns no items and leaves the list
\* as it was.
C26_DefaultBothInvalidRejected ==
    [][(lres = None /\ lop'.name = "getitem")
          => /\ lop'.step = None
                   => lres' = [outcome |-> "ok",
                               items |-> FilterSeq(lst, {i \in 1..Len(lst) :
                                   Condition2(lst[i], lop'.start, lop'.stop, "both")}, 1)]
             /\ (lop'.step # None /\ Val(lop'.step) \notin ValidSteps)
                   => /\ lres' = [outcome |-> "ValueError", items |-> << >>]
                      /\ lst' = lst]_vars

\* C26 witness: a range access with an unknown mode token was made on a list
\* that holds items, and failed
C26_Witness ==
    /\ lop.name = "getitem"
    /\ lop.step = Some("bogus")
    /\ lop.start # None
    /\ lst # << >>
    /\ lres.outcome = "ValueError"

\* C28: after any sequence of TodoList(arg), append, item assignment and
\* slice assignment every element of the list is a Todo; and a call that
\* offers a value that is no Todo fails with ValueError and leaves the list's
\* contents and order as they were.
C28_OnlyTodos ==
    /\ [](AllTodos(lst))
    /\ [][(lop'.name \in {"TodoList", "append", "setitem", "setslice"}
              /\ lop'.offered = "other")
             => (lres' = Rejected /\ lst' = lst)]_vars

\* C28 witness: a slice assignment offering a value that is no Todo was made
\* on a list of two items and failed
C28_Witness ==
    /\ lop.name = "setslice"
    /\ lop.offered = "other"
    /\ lres = Rejected
    /\ Len(lst) = 2

\* the intervals of x and t overlap
Overlaps(x, t) == x.begin < t.end /\ t.begin < x.end

\* the items of s that have the same uid have the same begin and end
UidDecidesInterval(s) ==
    \A i, j \in 1..Len(s) : s[i].uid = s[j].uid => s[i] = s[j]

\* res is exactly the items of s that overlap t: every item returned overlaps
\* t, every item of s that overlaps t is in res (as Python's `in` finds it, by
\* Todo.__eq__), and no item is there twice
ExactlyOverlapping(res, s, t) ==
    /\ \A i \in 1..Len(res) : Overlaps(res[i], t)
    /\ \A k \in 1..Len(s) :
          Overlaps(s[k], t) => \E i \in 1..Len(res) : res[i].uid = s[k].uid
    /\ \A i, j \in 1..Len(res) : res[i].uid = res[j].uid => i = j

\* C8: for every list whose items satisfy begin <= end and every item t (with
\* begin <= end), concurrent(t) returns exactly the items whose interval
\* overlaps t's, none of them twice.
C8_ConcurrentIsOverlap ==
    (lop.name = "concurrent" /\ lop.todo.begin <= lop.todo.end)
        => ExactlyOverlapping(lres.items, lst, lop.todo)

\* what concurrent does compute: the overlapping items, on the lists in which
\* items of the same uid have the same begin and end
ConcurrentIsOverlapOfDistinct ==
    (lop.name = "concurrent" /\ lop.todo.begin <= lop.todo.end /\ UidDecidesInterval(lst))
        => ExactlyOverlapping(lres.items, lst, lop.todo)

\* concurrent(t) for t = [3,4) on three items, of which [2,5) contains t's
\* interval with neither end inside it and the other two miss it
ConcurrentContaining ==
    /\ lop.name = "concurrent"
    /\ lst = <<ItemA, ItemB, ItemC>>
    /\ lop.todo.begin = 3 /\ lop.todo.end = 4
    /\ lres.items = <<ItemB>>

(***************************************************************************)
(* Calendar (ics/icalendar.py).  A Calendar is its event list and its todo *)
(* list.  What is imported is text, which parses to a sequence of calendar *)
(* containers (each standing for the events and todos it carries), or some *)
(* other iterable, here a list of items.                                   *)
(***************************************************************************)
\* an event list or todo list of a Calendar holds at most MaxCalLen items
MaxCalLen == 1

CalPool == {ItemA, ItemB, ItemA2}
CalLists == SeqsUpTo(CalPool, MaxCalLen)
EmptyCalendar == [events |-> << >>, todos |-> << >>]
Containers == {EmptyCalendar, [events |-> <<ItemA>>, todos |-> <<ItemB>>]}
Texts == {[kind |-> "text", calendars |-> c] : c \in SeqsUpTo(Containers, 2)}
Objects == {[kind |-> "objects", items |-> l] : l \in CalLists}
Imports == {None} \cup {Some(i) : i \in Texts \cup Objects}
OptCalLists == {None} \cup {Some(l) : l \in CalLists}

\* EventList.__add__ (ics/eventlist.py), the list the TodoList was copied from
EventListAdd(self, other) == ListAdd(self, other)

\* string_to_container / lines_to_container: the containers text parses to;
\* an iterable of items that are no text has no lines to unfold: it yields
\* no container when empty and makes the parser raise otherwise
LinesToContainer(imports) ==
    IF imports.kind = "text"
    THEN [outcome |-> "ok", container |-> imports.calendars]
    ELSE IF imports.items = << >>
         THEN [outcome |-> "ok", container |-> << >>]
         ELSE [outcome |-> "AttributeError", container |-> << >>]

\* a constructor that takes the first of several calendars: not what the code does
CalendarInitFirst(imports, events, todos) ==
    LET evs == IF events = None THEN << >> ELSE Val(events)
        tds == IF todos = None THEN << >> ELSE Val(todos)
    IN IF imports # None
       THEN LET parsed == LinesToContainer(Val(imports)) IN
            IF parsed.outcome # "ok"
            THEN [outcome |-> parsed.outcome, cal |-> EmptyCalendar]
            ELSE IF Len(parsed.container) < 1
            THEN [outcome |-> "NotImplementedError", cal |-> EmptyCalendar]
            ELSE [outcome |-> "ok", cal |-> parsed.container[1]]
       ELSE [outcome |-> "ok", cal |-> [events |-> evs, todos |-> tds]]

\* Calendar.__init__(imports, events, todos)
CalendarInit(imports, events, todos) ==
    LET evs == IF events = None THEN << >> ELSE Val(events)
        tds == IF todos = None THEN << >> ELSE Val(todos)
    IN IF imports # None
       THEN LET parsed == LinesToContainer(Val(imports)) IN
            IF parsed.outcome # "ok"
            THEN [outcome |-> parsed.outcome, cal |-> EmptyCalendar]
            ELSE IF Len(parsed.container) # 1
            THEN [outcome |-> "NotImplementedError", cal |-> EmptyCalendar]
            ELSE [outcome |-> "ok", cal |-> parsed.container[1]]
       ELSE [outcome |-> "ok", cal |-> [events |-> evs, todos |-> tds]]

\* Calendar.__add__: Calendar(events, todos), the two lists passed by position
CalendarAdd(self, other) ==
    LET events == EventListAdd(self.events, other.events)
        todos == ListAdd(self.todos, other.todos)
    IN CalendarInit(Some([kind |-> "objects", items |-> events]), Some(todos), None)

\* c1 = Calendar(imports, events, todos), the call the scenario starts with;
\* c2 is Calendar()
NewCalendar ==
    /\ calop.name = "none"
    /\ \E imports \in Imports, events \in OptCalLists, todos \in OptCalLists :
          LET r == CalendarInit(imports, events, todos) IN
          /\ calop' = [name |-> "Calendar", imports |-> imports]
          /\ calres' = Some(r)
          /\ cal1' = r.cal
    /\ UNCHANGED <<cal2, eventVars, cloneVars, listVars, todoVars, identVars, orVars>>

\* c1 exists: the call that was to make it did not raise
CalLive ==
    /\ calop.name # "none"
    /\ calop.name = "Calendar" => Val(calres).outcome = "ok"

\* c.events.append(item)
CalAppendEvent ==
    /\ CalLive
    /\ \E item \in CalPool :
          \/ /\ Len(cal1.events) < MaxCalLen
             /\ cal1' = [cal1 EXCEPT !.events = Append(@, item)]
             /\ UNCHANGED cal2
          \/ /\ Len(cal2.events) < MaxCalLen
             /\ cal2' = [cal2 EXCEPT !.events = Append(@, item)]
             /\ UNCHANGED cal1
    /\ calop' = [name |-> "append"]
    /\ calres' = None
    /\ UNCHANGED <<eventVars, cloneVars, listVars, todoVars, identVars, orVars>>

\* c.todos.append(item)
CalAppendTodo ==
    /\ CalLive
    /\ \E item \in CalPool :
          \/ /\ Len(cal1.todos) < MaxCalLen
             /\ cal1' = [cal1 EXCEPT !.todos = Append(@, item)]
             /\ UNCHANGED cal2
          \/ /\ Len(cal2.todos) < MaxCalLen
             /\ cal2' = [cal2 EXCEPT !.todos = Append(@, item)]
             /\ UNCHANGED cal1
    /\ calop' = [name |-> "append"]
    /\ calres' = None
    /\ UNCHANGED <<eventVars, cloneVars, listVars, todoVars, identVars, orVars>>

\* c1 + c2
CalPlus ==
    /\ CalLive
    /\ calop' = [name |-> "add"]
    /\ calres' = Some(CalendarAdd(cal1, cal2))
    /\ UNCHANGED <<cal1, cal2, eventVars, cloneVars, listVars, todoVars, identVars, orVars>>

InitCal == IdleEvent /\ IdleClone /\ IdleList /\ IdleCal /\ IdleTodo /\ IdleIdent /\ IdleOr

NextCal ==
    \/ NewCalendar
    \/ CalAppendEvent
    \/ CalAppendTodo
    \/ CalPlus

SpecCal == InitCal /\ [][NextCal]_vars

\* C9: c1 + c2 is a Calendar whose event list is the deduplicated concatenation
\* c1.events + c2.events and whose todo list is the deduplicated concatenation
\* c1.todos + c2.todos.
C9_CalendarAddMerges ==
    calop.name = "add"
        => /\ Val(calres).outcome = "ok"
           /\ Val(calres).cal.events = EventListAdd(cal1.events, cal2.events)
           /\ Val(calres).cal.todos = ListAdd(cal1.todos, cal2.todos)

\* C19: constructing a Calendar from text that parses to more than one
\* top-level calendar container fails and populates nothing from any of them;
\* text that parses to exactly one container is populated from that container.
C19_OneCalendarOnly ==
    (calop.name = "Calendar" /\ calop.imports # None
                             /\ Val(calop.imports).kind = "text")
        => LET parsed == Val(calop.imports).calendars IN
           /\ Len(parsed) > 1
                 => /\ Val(calres).outcome = "NotImplementedError"
                    /\ Val(calres).cal = EmptyCalendar
                    /\ cal1 = EmptyCalendar
                    /\ ~CalLive
           /\ Len(parsed) = 1
                 => /\ Val(calres).outcome = "ok"
                    /\ cal1 = parsed[1]

\* C19 witness: text with two calendar containers, the first of them with an
\* event and a todo, was refused
C19_Witness ==
    /\ calop.name = "Calendar" /\ calop.imports # None
    /\ Val(calop.imports).kind = "text"
    /\ Len(Val(calop.imports).calendars) = 2
    /\ Val(calop.imports).calendars[1] # EmptyCalendar
    /\ Val(calres).outcome = "NotImplementedError"

(***************************************************************************)
(* clone() of a Todo, an Event and a Calendar (copy.copy, then the fields  *)
(* clone() replaces).  Objects live in a heap, a sequence of cells         *)
(* addressed by their position, since what a shallow copy shares is the    *)
(* reference.  The cells are:                                              *)
(*   [kind "strs", lines]   a list of strings: a categories list, or the   *)
(*                          lines of an unused-line Container              *)
(*   [kind "todo", uid, name, categories, unused]                          *)
(*   [kind "event", uid, name, unused]                                     *)
(*   [kind "list", refs]    an EventList or a TodoList                     *)
(*   [kind "cal", events, todos, unused, creator]                          *)
(***************************************************************************)
\* a list of strings holds at most MaxLines strings
MaxLines == 2
\* at most MaxMut mutations follow clone()
MaxMut == 2

Alloc(h, cell) == [heap |-> Append(h, cell), ref |-> Len(h) + 1]

\* Container.clone (ics/parse.py): a new Container with a copy of the lines
ContainerClone(h, r) == Alloc(h, h[r])

\* Todo.clone and Event.clone: copy.copy(self), then _unused is cloned
ItemClone(h, r) ==
    LET c == Alloc(h, h[r])
        u == ContainerClone(c.heap, h[r].unused)
    IN [heap |-> [u.heap EXCEPT ![c.ref].unused = u.ref], ref |-> c.ref]

\* map(lambda x: x.clone(), self), from the i-th item on
RECURSIVE CloneItems(_, _, _)
CloneItems(h, refs, i) ==
    IF i > Len(refs) THEN [heap |-> h, refs |-> << >>]
    ELSE LET c == ItemClone(h, refs[i])
             rest == CloneItems(c.heap, refs, i + 1)
         IN [heap |-> rest.heap, refs |-> <<c.ref>> \o rest.refs]

\* TodoList.clone (and EventList.clone): TodoList(map(clone, self))
ListClone(h, r) ==
    LET items == CloneItems(h, h[r].refs, 1)
    IN Alloc(items.heap, [kind |-> "list", refs |-> items.refs])

\* Calendar.clone
CalendarClone(h, r) ==
    LET c == Alloc(h, h[r])
        u == ContainerClone(c.heap, h[r].unused)
        e == ListClone(u.heap, h[r].events)
        t == ListClone(e.heap, h[r].todos)
    IN [heap |-> [t.heap EXCEPT ![c.ref].unused = u.ref,
                                ![c.ref].events = e.ref,
                                ![c.ref].todos = t.ref],
        ref |-> c.ref]

\* x.clone()
CloneOf(h, r) ==
    IF h[r].kind = "cal" THEN CalendarClone(h, r) ELSE ItemClone(h, r)

\* everything that can be read from the object at r
RECURSIVE Deep(_, _)
Deep(h, r) ==
    CASE h[r].kind = "strs" -> h[r].lines
      [] h[r].kind = "todo" ->
            [uid |-> h[r].uid, name |-> h[r].name,
             categories |-> IF h[r].categories = None THEN None
                            ELSE Some(Deep(h, Val(h[r].categories))),
             unused |-> Deep(h, h[r].unused)]
      [] h[r].kind = "event" ->
            [uid |-> h[r].uid, name |-> h[r].name, unused |-> Deep(h, h[r].unused)]
      [] h[r].kind = "list" -> [i \in 1..Len(h[r].refs) |-> Deep(h, h[r].refs[i])]
      [] h[r].kind = "cal" ->
            [events |-> Deep(h, h[r].events), todos |-> Deep(h, h[r].todos),
             unused |-> Deep(h, h[r].unused), creator |-> h[r].creator]

\* Todo.__eq__ and Event.__eq__ (the uid), Calendar.__eq__
ObjEq(h, a, b) ==
    IF h[a].kind = "cal"
    THEN LET ea == h[h[a].events].refs  eb == h[h[b].events].refs
             ta == h[h[a].todos].refs   tb == h[h[b].todos].refs
         IN /\ Len(ea) = Len(eb)
            /\ Len(ta) = Len(tb)
            /\ \A i \in 1..Len(ea) : h[ea[i]].uid = h[eb[i]].uid
            /\ \A i \in 1..Len(ta) : h[ta[i]].uid = h[tb[i]].uid
            /\ h[h[a].unused].lines = h[h[b].unused].lines
            /\ h[a].creator = h[b].creator
    ELSE h[a].uid = h[b].uid

\* the objects the scenario starts from: a Todo with or without categories,
\* an Event, and a Calendar holding one Event and one Todo with categories
TodoHeap(cats) ==
    IF cats = None
    THEN << [kind |-> "strs", lines |-> << >>],
            [kind |-> "todo", uid |-> "a", name |-> "n", categories |-> None, unused |-> 1] >>
    ELSE << [kind |-> "strs", lines |-> << >>],
            [kind |-> "todo", uid |-> "a", name |-> "n", categories |-> Some(3), unused |-> 1],
            [kind |-> "strs", lines |-> Val(cats)] >>

EventHeap ==
    << [kind |-> "strs", lines |-> << >>],
       [kind |-> "event", uid |-> "e", name |-> "n", unused |-> 1] >>

CalendarHeap ==
    TodoHeap(Some(<<"work">>)) \o
    << [kind |-> "strs", lines |-> << >>],
       [kind |-> "event", uid |-> "e", name |-> "n", unused |-> 4],
       [kind |-> "list", refs |-> <<5>>],
       [kind |-> "list", refs |-> <<2>>],
       [kind |-> "strs", lines |-> << >>],
       [kind |-> "cal", events |-> 6, todos |-> 7, unused |-> 8, creator |-> "n"] >>

\* the root the caller holds: x or clone(x)
Root(side) == IF side = "orig" THEN Val(orig) ELSE Val(cln)

\* the Todo or Event the caller reaches from the root: the root itself, or the
\* first item of the Calendar's todo list (of its event list when which = "event")
Reach(side, which) ==
    LET r == Root(side) IN
    IF heap[r].kind # "cal" THEN (IF heap[r].kind = which THEN Some(r) ELSE None)
    ELSE LET l == heap[IF which = "todo" THEN heap[r].todos ELSE heap[r].events].refs
         IN IF l = << >> THEN None ELSE Some(l[1])

Sides == {"orig", "clone"}
Cloned == cln # None
Budget == cop.n < MaxMut
Mutation(name, side) == [name |-> name, on |-> side, n |-> cop.n + 1]

\* c = x.clone()
Clone ==
    /\ orig # None
    /\ ~Cloned
    /\ LET c == CloneOf(heap, Val(orig)) IN
          /\ heap' = c.heap
          /\ cln' = Some(c.ref)
    /\ cop' = [name |-> "clone", on |-> "orig", n |-> 0]
    /\ UNCHANGED <<orig, eventVars, listVars, calVars, todoVars, identVars, orVars>>

\* item.name = value, on a Todo or an Event
SetName ==
    /\ Cloned /\ Budget
    /\ \E side \in Sides, which \in {"todo", "event"}, value \in {"n", "m"} :
          /\ Reach(side, which) # None
          /\ heap' = [heap EXCEPT ![Val(Reach(side, which))].name = value]
          /\ cop' = Mutation("name", side)
    /\ UNCHANGED <<orig, cln, eventVars, listVars, calVars, todoVars, identVars, orVars>>

\* todo.categories.append(cat)
AppendCategory ==
    /\ Cloned /\ Budget
    /\ \E side \in Sides :
          /\ Reach(side, "todo") # None
          /\ LET cats == heap[Val(Reach(side, "todo"))].categories IN
                /\ cats # None
                /\ Len(heap[Val(cats)].lines) < MaxLines
                /\ heap' = [heap EXCEPT ![Val(cats)].lines = Append(@, "home")]
          /\ cop' = Mutation("categories.append", side)
    /\ UNCHANGED <<orig, cln, eventVars, listVars, calVars, todoVars, identVars, orVars>>

\* todo.categories = None
ClearCategories ==
    /\ Cloned /\ Budget
    /\ \E side \in Sides :
          /\ Reach(side, "todo") # None
          /\ heap' = [heap EXCEPT ![Val(Reach(side, "todo"))].categories = None]
          /\ cop' = Mutation("categories", side)
    /\ UNCHANGED <<orig, cln, eventVars, listVars, calVars, todoVars, identVars, orVars>>

\* x._unused.append(line), on the root's unused-line container
AppendUnused ==
    /\ Cloned /\ Budget
    /\ \E side \in Sides :
          LET u == heap[Root(side)].unused IN
          /\ Len(heap[u].lines) < MaxLines
          /\ heap' = [heap EXCEPT ![u].lines = Append(@, "X-LINE")]
          /\ cop' = Mutation("unused.append", side)
    /\ UNCHANGED <<orig, cln, eventVars, listVars, calVars, todoVars, identVars, orVars>>

\* calendar.todos.pop() or calendar.events.pop()
PopItem ==
    /\ Cloned /\ Budget
    /\ \E side \in Sides, which \in {"todos", "events"} :
          /\ heap[Root(side)].kind = "cal"
          /\ LET l == IF which = "todos" THEN heap[Root(side)].todos
                      ELSE heap[Root(side)].events IN
                /\ heap[l].refs # << >>
                /\ heap' = [heap EXCEPT ![l].refs = SubSeq(@, 1, Len(@) - 1)]
          /\ cop' = Mutation("pop", side)
    /\ UNCHANGED <<orig, cln, eventVars, listVars, calVars, todoVars, identVars, orVars>>

\* calendar.creator = value
SetCreator ==
    /\ Cloned /\ Budget
    /\ \E side \in Sides, value \in {"n", "m"} :
          /\ heap[Root(side)].kind = "cal"
          /\ heap' = [heap EXCEPT ![Root(side)].creator = value]
          /\ cop' = Mutation("creator", side)
    /\ UNCHANGED <<orig, cln, eventVars, listVars, calVars, todoVars, identVars, orVars>>

InitClone ==
    /\ IdleEvent /\ IdleList /\ IdleCal /\ IdleTodo /\ IdleIdent /\ IdleOr
    /\ \/ \E cats \in {None, Some(<<"work">>)} : heap = TodoHeap(cats)
       \/ heap = EventHeap
       \/ heap = CalendarHeap
    /\ orig = Some(IF heap = CalendarHeap THEN Len(heap) ELSE 2)
    /\ cln = None
    /\ cop = [name |-> "new", on |-> "orig", n |-> 0]

NextClone ==
    \/ Clone
    \/ SetName
    \/ AppendCategory
    \/ ClearCategories
    \/ AppendUnused
    \/ PopItem
    \/ SetCreator

SpecClone == InitClone /\ [][NextClone]_vars

\* C4: clone(x) == x, and once x is cloned no mutation of the clone changes
\* anything that can be read from x and no mutation of x changes the clone.
C4_CloneIsIndependent ==
    [][/\ (~Cloned /\ cln' # None) => ObjEq(heap', Val(cln'), Val(orig))
       /\ (Cloned /\ cop'.on = "clone")
             => Deep(heap', Val(orig)) = Deep(heap, Val(orig))
       /\ (Cloned /\ cop'.on = "orig")
             => Deep(heap', Val(cln)) = Deep(heap, Val(cln))]_vars

(***************************************************************************)
(* Todo (ics/todo.py) and TodoList.bump.  The Todo objects live in a store *)
(* addressed by position, and the list holds references: the same Todo can *)
(* be in the list more than once.  A Todo here is its uid, its _due (an    *)
(* instant or None) and its _percent.  A value is tagged with its Python   *)
(* type: <<"int", 100>>, <<"str", 100>> (the text "100") and               *)
(* <<"Arrow", t>> (the instant t) are three different values.              *)
(***************************************************************************)
\* arrow.now() is 0..MaxNow
MaxNow == 1
\* dues are 0..MaxDue
MaxDue == 3
\* the store holds at most MaxTodos Todo objects
MaxTodos == 2
\* the list holds at most MaxTLen references
MaxTLen == 2

Dues == 0..MaxDue
OptDues == {None} \cup {Some(t) : t \in Dues}
\* the percent handed to the constructor or assigned
PercentArgs == {None} \cup {<<"int", v>> : v \in {0, 50, 100}}
\* the value of a PERCENT-COMPLETE line, or no line
PercentLines == {None} \cup {<<"str", v>> : v \in {50, 100}}
\* bump's delta, in the unit of the instants
Deltas == {1, 2}
\* what arrow.get makes of a string of digits: a timestamp, or (later
\* releases of arrow) a ParserError
DigitStrings == {"timestamp", "ParserError"}
\* what None < Arrow is: a TypeError, or (Python 2, None sorting first) true
NoneLess == {"TypeError", "True"}

TodoUid(ref) == IF ref = 1 THEN "a" ELSE "b"

\* Python truthiness of a percent value: None and 0 are false
TruthyPercent(value) == value # None /\ value # <<"int", 0>>

\* get_arrow(value) (ics/utils.py): value coerced to an instant
GetArrow(value, digits) ==
    IF value = None THEN [outcome |-> "ok", value |-> None]
    ELSE IF value[1] = "str" /\ digits = "ParserError"
         THEN [outcome |-> "ParserError", value |-> None]
    ELSE [outcome |-> "ok", value |-> <<"Arrow", value[2]>>]

\* Todo.percent (setter): arrow.now() if not value else get_arrow(value)
SetPercent(td, value, clock, digits) ==
    IF ~TruthyPercent(value)
    THEN [td |-> [td EXCEPT !.percent = <<"Arrow", clock>>], outcome |-> "ok"]
    ELSE LET g == GetArrow(value, digits) IN
         IF g.outcome # "ok" THEN [td |-> td, outcome |-> g.outcome]
         ELSE [td |-> [td EXCEPT !.percent = g.value], outcome |-> "ok"]

\* Todo.percent (getter): an Arrow is always true
ReadPercent(td) == IF td.percent # None THEN td.percent ELSE None

\* Todo.is_complete: self.percent == 100
IsComplete(td) == ReadPercent(td) = <<"int", 100>>

\* Todo.has_due
HasDue(td) == TruthyInstant(td.due)

\* Todo.is_overdue: self._due < arrow.now()
IsOverdue(td, clock, noneLess) ==
    IF td.due = None THEN noneLess
    ELSE IF Val(td.due) < clock THEN "True" ELSE "False"

\* Todo.__init__(due, percent)
TodoInit(uid, due, percent, clock) ==
    LET blank == [uid |-> uid, due |-> None, percent |-> None]
        r == SetPercent(blank, percent, clock, "timestamp")
    IN [r.td EXCEPT !.due = IF TruthyInstant(due) THEN due ELSE None]

\* Todo._from_container: Todo(), then the PERCENT_COMPLETE and DUE extractors
TodoPopulate(uid, percentLine, dueLine, clock, digits) ==
    LET t0 == TodoInit(uid, None, None, clock)
        r == SetPercent(t0, percentLine, clock, digits)
    IN IF r.outcome # "ok" THEN r
       ELSE [td |-> [r.td EXCEPT !.due = IF dueLine # None THEN dueLine ELSE @],
             outcome |-> "ok"]

\* Todo.bump(delta, force_empty_dues)
TodoBump(td, delta, force, clock) ==
    IF ~force /\ ~TruthyInstant(td.due) THEN td
    ELSE LET due == IF ~TruthyInstant(td.due) THEN Some(clock) ELSE td.due
         IN [td EXCEPT !.due = Some(Val(due) + delta)]

\* the loop of TodoList.bump, from the i-th place of the list on
RECURSIVE BumpLoop(_, _, _, _, _, _)
BumpLoop(st, refs, i, delta, force, clock) ==
    IF i > Len(refs) THEN st
    ELSE BumpLoop([st EXCEPT ![refs[i]] = TodoBump(@, delta, force, clock)],
                  refs, i + 1, delta, force, clock)

\* TodoList.bump(delta, force_empty_dues)
ListBump(st, refs, delta, force, clock) == BumpLoop(st, refs, 1, delta, force, clock)

\* t = Todo(due=due, percent=percent)
NewTodo ==
    /\ Len(store) < MaxTodos
    /\ \E due \in OptDues, percent \in PercentArgs :
          /\ store' = Append(store, TodoInit(TodoUid(Len(store) + 1), due, percent, now))
          /\ top' = [name |-> "Todo", ref |-> Len(store) + 1, value |-> percent,
                     result |-> "ok"]
    /\ UNCHANGED <<tlist, now, eventVars, cloneVars, listVars, calVars, identVars, orVars>>

\* t = Todo._from_container(container)
ParseTodo ==
    /\ Len(store) < MaxTodos
    /\ \E line \in PercentLines, due \in OptDues, digits \in DigitStrings :
          LET r == TodoPopulate(TodoUid(Len(store) + 1), line, due, now, digits) IN
          /\ store' = IF r.outcome = "ok" THEN Append(store, r.td) ELSE store
          /\ top' = [name |-> "parse",
                     ref |-> IF r.outcome = "ok" THEN Len(store) + 1 ELSE 0,
                     value |-> line, result |-> r.outcome]
    /\ UNCHANGED <<tlist, now, eventVars, cloneVars, listVars, calVars, identVars, orVars>>

\* t.percent = value
AssignPercent ==
    /\ \E ref \in 1..Len(store), value \in PercentArgs :
          LET r == SetPercent(store[ref], value, now, "timestamp") IN
          /\ store' = [store EXCEPT ![ref] = r.td]
          /\ top' = [name |-> "set_percent", ref |-> ref, value |-> value,
                     result |-> r.outcome]
    /\ UNCHANGED <<tlist, now, eventVars, cloneVars, listVars, calVars, identVars, orVars>>

\* l.append(t)
AppendTodo ==
    /\ Len(tlist) < MaxTLen
    /\ \E ref \in 1..Len(store) :
          /\ tlist' = Append(tlist, ref)
          /\ top' = [name |-> "append", ref |-> ref, value |-> None, result |-> "ok"]
    /\ UNCHANGED <<store, now, eventVars, cloneVars, listVars, calVars, identVars, orVars>>

\* l.bump(delta, force_empty_dues)
BumpList ==
    /\ \E delta \in Deltas, force \in BOOLEAN :
          LET after == ListBump(store, tlist, delta, force, now) IN
          /\ \A ref \in 1..Len(after) :
                after[ref].due # None => Val(after[ref].due) <= MaxDue
          /\ store' = after
          /\ top' = [name |-> "bump", ref |-> 0,
                     value |-> <<IF force THEN "force" ELSE "leave", delta>>,
                     result |-> "ok"]
    /\ UNCHANGED <<tlist, now, eventVars, cloneVars, listVars, calVars, identVars, orVars>>

\* t.is_overdue()
AskOverdue ==
    /\ \E ref \in 1..Len(store), noneLess \in NoneLess :
          top' = [name |-> "is_overdue", ref |-> ref, value |-> None,
                  result |-> IsOverdue(store[ref], now, noneLess)]
    /\ UNCHANGED <<store, tlist, now, eventVars, cloneVars, listVars, calVars, identVars, orVars>>

\* time passes
Tick ==
    /\ now < MaxNow
    /\ now' = now + 1
    /\ top' = [name |-> "tick", ref |-> 0, value |-> None, result |-> "ok"]
    /\ UNCHANGED <<store, tlist, eventVars, cloneVars, listVars, calVars, identVars, orVars>>

InitTodo == IdleEvent /\ IdleClone /\ IdleList /\ IdleCal /\ IdleTodo /\ IdleIdent /\ IdleOr

NextTodo ==
    \/ NewTodo
    \/ ParseTodo
    \/ AssignPercent
    \/ AppendTodo
    \/ BumpList
    \/ AskOverdue
    \/ Tick

SpecTodo == InitTodo /\ [][NextTodo]_vars

\* the list holds the Todo at ref
Listed(ref) == \E i \in 1..Len(tlist) : tlist[i] = ref

\* C15: TodoList.bump(delta, force_empty_dues) shifts the due of every listed
\* todo that has a due by delta exactly once; a listed todo without a due is
\* left as it is when force_empty_dues is false, and gets the current instant
\* plus delta when it is true; nothing but due changes, and the list holds
\* the same todos in the same order.
C15_BumpShiftsOnce ==
    [][top'.name = "bump"
          => /\ tlist' = tlist
             /\ Len(store') = Len(store)
             /\ \A ref \in 1..Len(store) :
                   /\ store'[ref].uid = store[ref].uid
                   /\ store'[ref].percent = store[ref].percent
                   /\ IF ~Listed(ref) THEN store'[ref] = store[ref]
                      ELSE IF store[ref].due # None
                      THEN store'[ref].due = Some(Val(store[ref].due) + top'.value[2])
                      ELSE IF top'.value[1] = "force"
                      THEN store'[ref].due = Some(now + top'.value[2])
                      ELSE store'[ref] = store[ref]]_vars

\* C16: is_overdue() returns true exactly when due is set and precedes the
\* current time; for a Todo whose due is unset has_due() is false and
\* is_overdue() returns false.
C16_OverdueIffDuePast ==
    top.name = "is_overdue"
        => LET td == store[top.ref] IN
           /\ top.result = IF td.due # None /\ Val(td.due) < now THEN "True" ELSE "False"
           /\ td.due = None => ~HasDue(td)

\* C17: a Todo constructed with, assigned or parsed with percent 100 reports
\* is_complete() true, and a Todo with any other percent or with none false.
C17_CompleteIffPercent100 ==
    (top.name \in {"Todo", "set_percent", "parse"} /\ top.result = "ok")
        => (IsComplete(store[top.ref]) <=> (top.value # None /\ top.value[2] = 100))

(***************************************************************************)
(* Identity of Events (Event.__eq__, Event.__hash__).  A uid is a string,  *)
(* here the sequence of its characters' code points; the empty sequence is *)
(* the empty string.  Two Events a and b are made, each by the constructor *)
(* or from a container, and then compared and hashed.                      *)
(***************************************************************************)
\* a uid handed in has at most MaxUidLen characters
MaxUidLen == 2

\* code points: NUL, "a", and one beyond 999 (that '%.3d' prints in four digits)
CodePoints == {0, 97, 1000}
UidStrings == SeqsUpTo(CodePoints, MaxUidLen)
\* the uid argument of the constructor
UidArgs == {None} \cup {Some(u) : u \in UidStrings}
\* the UID line of a container: absent, or its value
UidLines == {None} \cup {Some(u) : u \in UidStrings}
Names == {"x", "y"}

\* uid_gen(): a fresh string, "g0", "g1", ...
UidGen(n) == <<103, 48 + n>>

\* '%.3d' % ord(x) has three digits, or as many as ord(x) has when more
Ord3Width(c) == IF c < 1000 THEN 1000 ELSE 10000

\* int(''.join(map(ord3, uid))), the digits read left to right; int('') raises
RECURSIVE JoinDigits(_, _, _)
JoinDigits(uid, i, acc) ==
    IF i > Len(uid) THEN acc
    ELSE JoinDigits(uid, i + 1, acc * Ord3Width(uid[i]) + uid[i])

\* Event.__hash__
EventHash(ev) ==
    IF ev.uid = << >> THEN [outcome |-> "ValueError", value |-> 0]
    ELSE [outcome |-> "ok", value |-> JoinDigits(ev.uid, 1, 0)]

\* Event.__eq__
EventEq(a, b) == a.uid = b.uid

\* Event.__init__(name, uid): uid_gen() if not uid else uid
EventIdentInit(name, uid, n) ==
    [uid |-> IF uid = None \/ Val(uid) = << >> THEN UidGen(n) ELSE Val(uid),
     name |-> name]

\* Event._from_container: Event(), then the SUMMARY and UID extractors
EventIdentPopulate(name, line, n) ==
    LET e0 == EventIdentInit("", None, n)
    IN [uid |-> IF line # None THEN Val(line) ELSE e0.uid, name |-> name]

\* a = Event(name=name, uid=uid), then b likewise
NewEvent ==
    /\ ev2 = None
    /\ \E name \in Names, uid \in UidArgs :
          LET e == EventIdentInit(name, uid, idop.gen) IN
          /\ ev1' = IF ev1 = None THEN Some(e) ELSE ev1
          /\ ev2' = IF ev1 = None THEN ev2 ELSE Some(e)
          /\ idop' = [name |-> "Event", gen |-> idop.gen + 1]
    /\ UNCHANGED <<eventVars, cloneVars, listVars, calVars, todoVars, orVars>>

\* a = Event._from_container(container), then b likewise
ParseEvent ==
    /\ ev2 = None
    /\ \E name \in Names, line \in UidLines :
          LET e == EventIdentPopulate(name, line, idop.gen) IN
          /\ ev1' = IF ev1 = None THEN Some(e) ELSE ev1
          /\ ev2' = IF ev1 = None THEN ev2 ELSE Some(e)
          /\ idop' = [name |-> "parse", gen |-> idop.gen + 1]
    /\ UNCHANGED <<eventVars, cloneVars, listVars, calVars, todoVars, orVars>>

\* a == b, hash(a), hash(b)
Compare ==
    /\ ev2 # None
    /\ idop.name # "compare"
    /\ idop' = [name |-> "compare", gen |-> idop.gen, eq |-> EventEq(Val(ev1), Val(ev2)),
                hash1 |-> EventHash(Val(ev1)), hash2 |-> EventHash(Val(ev2))]
    /\ UNCHANGED <<ev1, ev2, eventVars, cloneVars, listVars, calVars, todoVars, orVars>>

InitIdent == IdleEvent /\ IdleClone /\ IdleList /\ IdleCal /\ IdleTodo /\ IdleIdent /\ IdleOr

NextIdent ==
    \/ NewEvent
    \/ ParseEvent
    \/ Compare

SpecIdent == InitIdent /\ [][NextIdent]_vars

\* C18: a == b holds exactly when the uids are equal, whatever the other
\* fields; a == b implies hash(a) == hash(b); and the hash is defined for
\* every Event the constructor and the UID extractor produce.
C18_EqAndHashByUid ==
    idop.name = "compare"
        => /\ idop.eq <=> (Val(ev1).uid = Val(ev2).uid)
           /\ idop.hash1.outcome = "ok"
           /\ idop.hash2.outcome = "ok"
           /\ idop.eq => idop.hash1 = idop.hash2

(***************************************************************************)
(* The intersection of two Events (Event.__or__): a and b are constructed, *)
(* then a | b and b | a are evaluated.                                     *)
(***************************************************************************)
\* what a | b ends with: the pair it returns, or the error reading an end
\* raises.  `self.end and other.end` reads other.end only when self.end is
\* true.
EventOr(self, other) ==
    LET se == ReadEnd(self)
        oe == ReadEnd(other)
        begin == IF TruthyInstant(self.begin) /\ TruthyInstant(other.begin)
                 THEN Some(IF Val(self.begin) >= Val(other.begin)
                           THEN Val(self.begin) ELSE Val(other.begin))
                 ELSE None
        end == IF TruthyInstant(se.value) /\ TruthyInstant(oe.value)
               THEN Some(IF Val(se.value) <= Val(oe.value)
                         THEN Val(se.value) ELSE Val(oe.value))
               ELSE None
    IN  IF se.outcome # "ok" THEN [outcome |-> se.outcome, pair |-> <<None, None>>]
        ELSE IF TruthyInstant(se.value) /\ oe.outcome # "ok"
        THEN [outcome |-> oe.outcome, pair |-> <<None, None>>]
        ELSE IF TruthyInstant(begin) /\ TruthyInstant(end) /\ Val(begin) < Val(end)
        THEN [outcome |-> "ok", pair |-> <<begin, end>>]
        ELSE [outcome |-> "ok", pair |-> <<None, None>>]

\* a = Event(begin, end, duration), then b likewise
MakeEvent ==
    /\ evB = None
    /\ \E b \in OptInstants, e \in OptInstants, d \in OptDurations,
          noneCmp \in {"TypeError", "False"} :
          LET r == EventInit(b, e, d, noneCmp) IN
          /\ r.outcome = "ok"
          /\ evA' = IF evA = None THEN Some(r.ev) ELSE evA
          /\ evB' = IF evA = None THEN evB ELSE Some(r.ev)
          /\ orop' = [name |-> "Event"]
    /\ UNCHANGED <<eventVars, cloneVars, listVars, calVars, todoVars, identVars>>

\* a | b, b | a
Intersect ==
    /\ evB # None
    /\ orop.name # "or"
    /\ orop' = [name |-> "or", ab |-> EventOr(Val(evA), Val(evB)),
                ba |-> EventOr(Val(evB), Val(evA))]
    /\ UNCHANGED <<evA, evB, eventVars, cloneVars, listVars, calVars, todoVars, identVars>>

InitOr == IdleEvent /\ IdleClone /\ IdleList /\ IdleCal /\ IdleTodo /\ IdleIdent /\ IdleOr

NextOr ==
    \/ MakeEvent
    \/ Intersect

SpecOr == InitOr /\ [][NextOr]_vars

\* the pair the intersection of a and b is: the later begin and the earlier
\* effective end when all four exist and the begin is before the end
Intersection(a, b) ==
    LET ea == EventEnd(a)
        eb == EventEnd(b)
    IN  IF a.begin # None /\ b.begin # None /\ ea # None /\ eb # None
        THEN LET mx == IF Val(a.begin) >= Val(b.begin) THEN Val(a.begin) ELSE Val(b.begin)
                 mn == IF Val(ea) <= Val(eb) THEN Val(ea) ELSE Val(eb)
             IN  IF mx < mn THEN <<Some(mx), Some(mn)>> ELSE <<None, None>>
        ELSE <<None, None>>

\* C22: a | b returns (max of the begins, min of the effective ends) when
\* both begins and both effective ends exist and the max is before the min,
\* the pair (None, None) otherwise; and a | b equals b | a.
C22_OrIsIntersection ==
    orop.name = "or"
        => /\ orop.ab = [outcome |-> "ok", pair |-> Intersection(Val(evA), Val(evB))]
           /\ orop.ba = orop.ab

====
